---------------------------- MODULE Spec2Model ----------------------------
(***************************************************************************)
(* NOVA Clippy: the incremental synchronisation engine of                  *)
(* src/nova_clippy/main.py.                                                *)
(*                                                                         *)
(*   DiffSpec  dict_compare on bounded optional mappings.                  *)
(*   PoolSpec  threadpool_execute on abstract items and worker outcomes.   *)
(*   PathSpec  the cache path search_cats_in_course derives from a course, *)
(*             for every pair of bounded courses.                          *)
(*   Spec      repeated runs of main(): stage 1 search_cats_in_course,     *)
(*             stage 2 search_files_in_category, stage 3 download_file,    *)
(*             commit_cache and the summary, with a server whose catalog   *)
(*             changes between runs, a user who deletes local files, and   *)
(*             runs that are interrupted.                                  *)
(*                                                                         *)
(* The handlers imported by main.py (parse_index, parse_docs, parse_cache, *)
(* stash_cache, commit_cache, count_files_in_subfolders, get_file,         *)
(* download_file) are not part of src/; they are modelled from spec.md.    *)
(***************************************************************************)
EXTENDS Naturals, FiniteSets, Sequences, Bags

(***************************************************************************)
(* Bounds of the model.                                                    *)
(***************************************************************************)
NumKeys == 2          \* keys of the mappings given to dict_compare
MaxCount == 2         \* largest count in those mappings
NumItems == 3         \* argument tuples given to threadpool_execute (PoolSpec)
MaxPoolWorkers == 2   \* largest max_workers tried in PoolSpec
NumCourses == 1       \* courses returned by parse_courses
NumCats == 2          \* document categories per course
NumFiles == 2         \* distinct files a category may hold
MaxDocs == 3          \* documents a course holds on the server, all categories together

\* max_workers of the download stage: threadpool_execute(download_file, files, max_workers=4)
DOWNLOAD_WORKERS == 4
\* cfg.MAX_THREADS, the default max_workers ("generous": never the limiting factor)
MAX_THREADS == 8

Keys == 1..NumKeys
Courses == 1..NumCourses
Cats == 1..NumCats
Files == 1..NumFiles

VARIABLES
    \* dict_compare (DiffSpec)
    argA, argB, diffOut,
    \* the cache paths of two courses (PathSpec)
    coursePair, \* two Course objects of the list parse_courses returned
    cachePaths, \* the full_path each of them gives in search_cats_in_course
    \* threadpool_execute
    items,      \* bag of the argument tuples submitted
    pending,    \* bag of submitted futures not yet started
    running,    \* bag of worker invocations started and not finished
    started,    \* bag of the argument tuples whose invocation has started
    done,       \* bag of the completed futures the as_completed loop has not taken yet
    results,    \* the results list (order is not modelled: a bag)
    maxw,       \* max_workers of the pool
    escaped,    \* an exception has left threadpool_execute
    behav,      \* PoolSpec: what the worker does on each item
    \* the world
    server,     \* server[c][k]: the files of category k of course c on the server
    disk,       \* disk[c][k]: the files in the local subfolder of that category
    folders,    \* courses whose local folder exists
    durable,    \* durable[c]: the cache record of course c on disk
    stashWritesThrough, \* stash_cache writes the record to disk when it is called
                \* (spec 4.2), or keeps it in memory until commit_cache (spec 3)
    \* one run of main()
    pc,         \* "idle", "stage1", "stage2", "stage3", "commit", "report", "done",
                \* "aborted"
    wpc,        \* wpc[c]: the call the stage-1 worker of course c is about to make
    cachedict,  \* cachedict[c]: the record the stage-1 worker of course c loaded
    staged,     \* the cache records stash_cache was called with in this run
    subcats,    \* result of stage 1: bag of SyncTasks <<c, k>>
    files,      \* result of stage 2: bag of file descriptors <<c, k, f>>
    summary,    \* the number of files the summary reports ("Transferidos N ficheiros")
    \* history, for the properties
    dlOk,       \* descriptors whose download_file invocation succeeded in this run
    dlFail,     \* descriptors whose download_file invocation raised in this run
    anyFail,    \* some collaborator call of this run failed
    startDurable, \* durable at the start of this run
    startDisk,    \* disk at the start of this run
    returned,   \* courses whose search_cats_in_course invocation of this run returned
    fatal,      \* a worker of this run raised an exception that is no Exception
    mainRaised, \* where a call of main() itself raised in this run: "no", "line 165"
                \* (before the downloads), "line 174" (commit_cache) or "line 180"
    prevOk,     \* the previous run completed, no call of it failed, nothing changed since
    prevFailed, \* <<c, k>> with a failed download in the previous completed run, after
                \* the cache of c was stashed in that run; server unchanged since
    lastEnd     \* how the last run ended: "none", "completed", "interrupted"

diffVars == <<argA, argB, diffOut>>
pathVars == <<coursePair, cachePaths>>
poolVars == <<items, pending, running, started, done, results, maxw, escaped>>
worldVars == <<server, disk, folders, durable>>
implVars == <<stashWritesThrough>>
runVars == <<pc, wpc, staged, subcats, files, summary>>
histVars == <<dlOk, dlFail, anyFail, startDurable, startDisk, returned, fatal, mainRaised, prevOk,
              prevFailed,
              lastEnd>>
vars == <<diffVars, pathVars, poolVars, behav, worldVars, implVars, cachedict, runVars, histVars>>

(***************************************************************************)
(* Optional mappings: a dict or None.                                      *)
(***************************************************************************)
EmptyDict == [k \in {} |-> 0]
None == [isNone |-> TRUE, d |-> EmptyDict]
Some(m) == [isNone |-> FALSE, d |-> m]

\* every dict from a subset of the keys K to the values V
Dicts(K, V) == UNION {[D -> V] : D \in SUBSET K}

(***************************************************************************)
(* dict_compare(dict_a, dict_b), main.py lines 238-241.                    *)
(***************************************************************************)
\* a variant that also reports a key whose count is unchanged
AheadMut(a, b, key) == key \notin DOMAIN b \/ a[key] >= b[key]
Ahead(a, b, key) == key \notin DOMAIN b \/ a[key] > b[key]

\* a variant that answers an absent first argument with the empty diff
dict_compareNoneEmpty(dict_a, dict_b) ==
    IF dict_b.isNone THEN dict_a
    ELSE IF dict_a.isNone THEN Some(EmptyDict)
    ELSE Some([key \in {k \in DOMAIN dict_a.d : Ahead(dict_a.d, dict_b.d, k)} |-> dict_a.d[key]])

dict_compare(dict_a, dict_b) ==
    IF dict_b.isNone THEN dict_a
    ELSE IF dict_a.isNone THEN dict_b
    ELSE Some([key \in {k \in DOMAIN dict_a.d : Ahead(dict_a.d, dict_b.d, k)} |-> dict_a.d[key]])

\* "if not cachediff": None and the empty dict are both falsy
Falsy(x) == x.isNone \/ DOMAIN x.d = {}

-----------------------------------------------------------------------------
(***************************************************************************)
(* DiffSpec: dict_compare applied to every pair of bounded optional        *)
(* mappings.                                                               *)
(***************************************************************************)
OptDicts == {None} \cup {Some(m) : m \in Dicts(Keys, 0..MaxCount)}
NotRun == [isNone |-> TRUE, d |-> [k \in {0} |-> 0]]

IdleWorld ==
    /\ server = [c \in Courses |-> [k \in Cats |-> {}]]
    /\ disk = [c \in Courses |-> [k \in Cats |-> {}]]
    /\ folders = {}
    /\ durable = [c \in Courses |-> EmptyDict]
    /\ stashWritesThrough = FALSE
    /\ pc = "idle"
    /\ wpc = [c \in Courses |-> "none"]
    /\ cachedict = [c \in Courses |-> EmptyDict]
    /\ staged = [c \in {} |-> EmptyDict]
    /\ subcats = EmptyBag
    /\ files = EmptyBag
    /\ summary = 0
    /\ dlOk = EmptyBag
    /\ dlFail = EmptyBag
    /\ anyFail = FALSE
    /\ startDurable = durable
    /\ startDisk = disk
    /\ returned = {}
    /\ fatal = FALSE
    /\ mainRaised = "no"
    /\ prevOk = FALSE
    /\ prevFailed = {}
    /\ lastEnd = "none"

IdlePaths == coursePair = <<>> /\ cachePaths = <<>>

IdlePool ==
    /\ items = EmptyBag
    /\ pending = EmptyBag
    /\ running = EmptyBag
    /\ started = EmptyBag
    /\ done = EmptyBag
    /\ results = EmptyBag
    /\ maxw = MAX_THREADS
    /\ escaped = FALSE

InitDiff ==
    /\ argA \in OptDicts
    /\ argB \in OptDicts
    /\ diffOut = NotRun
    /\ IdlePool
    /\ behav = <<>>
    /\ IdlePaths
    /\ IdleWorld

Compare ==
    /\ diffOut = NotRun
    /\ diffOut' = dict_compare(argA, argB)
    /\ UNCHANGED <<implVars, cachedict, argA, argB, pathVars, poolVars, behav, worldVars, runVars, histVars>>

NextDiff == Compare

DiffSpec == InitDiff /\ [][NextDiff]_vars

DiffRan == diffOut # NotRun

(* C4: on two mappings, dict_compare(a, b) is exactly the mapping k -> a[k]
   over the keys k of a that are missing from b or have a[k] > b[k]: every
   such key is reported, no key with a[k] <= b[k] is reported (a decrease is
   never reported), and every reported value is a[k]. *)
C4_DiffExact ==
    (DiffRan /\ ~argA.isNone /\ ~argB.isNone) =>
        /\ ~diffOut.isNone
        /\ DOMAIN diffOut.d \subseteq DOMAIN argA.d
        /\ \A k \in DOMAIN argA.d :
              /\ (k \notin DOMAIN argB.d) => k \in DOMAIN diffOut.d
              /\ (k \in DOMAIN argB.d /\ argA.d[k] > argB.d[k]) => k \in DOMAIN diffOut.d
              /\ (k \in DOMAIN argB.d /\ argA.d[k] <= argB.d[k]) => k \notin DOMAIN diffOut.d
        /\ \A k \in DOMAIN diffOut.d : diffOut.d[k] = argA.d[k]

\* a diff that reports one key and keeps quiet about a key whose count decreased
C4_Witness ==
    /\ DiffRan /\ ~argA.isNone /\ ~argB.isNone
    /\ \E k \in DOMAIN diffOut.d : k \in DOMAIN argB.d /\ argA.d[k] > argB.d[k]
    /\ \E k \in DOMAIN argA.d \cap DOMAIN argB.d :
          argA.d[k] < argB.d[k] /\ k \notin DOMAIN diffOut.d

(* C5 as stated, the empty set read as the empty mapping: Diff(a, {}) = a
   and Diff({}, b) = b for all mappings a, b. *)
C5_EmptyMappingBothSides ==
    (DiffRan /\ ~argA.isNone /\ ~argB.isNone) =>
        /\ (argB.d = EmptyDict) => diffOut = argA
        /\ (argA.d = EmptyDict) => diffOut = argB

(* C5 amended: the degenerate cases are those of an absent (None) argument:
   dict_compare(a, None) = a and dict_compare(None, b) = b; for the empty
   mapping, dict_compare(a, {}) = a and dict_compare({}, b) = {}. *)
C5_Degenerate ==
    DiffRan =>
        /\ argB.isNone => diffOut = argA
        /\ argA.isNone => diffOut = argB
        /\ (~argA.isNone /\ ~argB.isNone /\ argB.d = EmptyDict) => diffOut = argA
        /\ (~argA.isNone /\ ~argB.isNone /\ argA.d = EmptyDict) => diffOut = Some(EmptyDict)

\* an absent first argument against a non-empty mapping, which is returned whole
C5_Witness ==
    /\ DiffRan /\ argA.isNone /\ ~argB.isNone
    /\ DOMAIN argB.d # {}
    /\ diffOut = argB

-----------------------------------------------------------------------------
(***************************************************************************)
(* threadpool_execute(worker_function, items, max_workers), main.py lines  *)
(* 190-204.  Every argument tuple is submitted at once; the pool starts a  *)
(* submitted invocation whenever fewer than max_workers are in flight; the *)
(* as_completed loop, in the main thread, takes each completed future,     *)
(* extends the results with a non-None result and logs an Exception; any   *)
(* other exception ends the loop and leaves the call.                      *)
(***************************************************************************)
NoReturn == [isNone |-> TRUE, iterable |-> FALSE, list |-> EmptyBag]
Returns(bag) == [isNone |-> FALSE, iterable |-> TRUE, list |-> bag]
\* a result that is neither None nor iterable: results.extend raises TypeError
Scalar == [isNone |-> FALSE, iterable |-> FALSE, list |-> EmptyBag]

\* a completed future: its argument tuple, what the invocation raised ("no",
\* "Exception" or "BaseException" for SystemExit, KeyboardInterrupt and the
\* like) and what it returned
Future(x, raised, value) == [args |-> x, raised |-> raised, value |-> value]

\* futures = {pool.submit(worker_function, *args): args for args in items}
Submit(bag, n) ==
    /\ items' = bag
    /\ pending' = bag
    /\ running' = EmptyBag
    /\ started' = EmptyBag
    /\ done' = EmptyBag
    /\ results' = EmptyBag
    /\ maxw' = n
    /\ escaped' = FALSE

\* a variant without a limit on the threads
UnboundedWorkers == TRUE
\* ThreadPoolExecutor(max_workers=max_workers): a thread is free
HasFreeWorker == BagCardinality(running) < maxw

\* a variant in which a taken work item stays in the queue
StaysQueued(x) == pending
\* a submitted work item leaves the queue when a thread takes it
Dequeued(x) == pending (-) SetToBag({x})

PoolStart(x) ==
    /\ BagIn(x, pending)
    /\ HasFreeWorker
    /\ pending' = Dequeued(x)
    /\ running' = running (+) SetToBag({x})
    /\ started' = started (+) SetToBag({x})
    /\ UNCHANGED <<items, done, results, maxw, escaped>>

\* the invocation of x ends in its pool thread, which is free again; the
\* future holds the exception or the result until the main thread takes it
Finish(x, raised, value) ==
    /\ BagIn(x, running)
    /\ running' = running (-) SetToBag({x})
    /\ done' = done (+) SetToBag({Future(x, raised, value)})
    /\ UNCHANGED <<items, pending, started, results, maxw, escaped>>

\* try: ... except Exception as e: log.error(...)
CatchesException(kind) == kind = "Exception"

\* the body of the as_completed loop, in the main thread, for the completed
\* future f (lines 195-202); an exception that is not caught ends the loop
Collect(f) ==
    /\ BagIn(f, done)
    /\ ~escaped
    /\ done' = done (-) SetToBag({f})
    /\ IF f.raised # "no"
         THEN /\ results' = results
              /\ escaped' = ~CatchesException(f.raised)
         ELSE IF f.value.isNone
           THEN /\ results' = results
                /\ escaped' = FALSE
           ELSE IF ~f.value.iterable
             THEN /\ results' = results
                  /\ escaped' = ~CatchesException("Exception")
             ELSE /\ results' = results (+) f.value.list
                  /\ escaped' = FALSE
    /\ UNCHANGED <<items, pending, running, started, maxw>>

\* a variant that returns without waiting for the futures
PoolNeverWaits == TRUE
\* threadpool_execute is over: the loop has taken every future or an
\* exception has ended it, and the with-block has waited for every invocation
PoolDone == pending = EmptyBag /\ running = EmptyBag /\ (escaped \/ done = EmptyBag)

(***************************************************************************)
(* PoolSpec: threadpool_execute on 0..NumItems argument tuples <<i>> with  *)
(* max_workers in 1..MaxPoolWorkers and a worker that, on item i, does     *)
(* behav[i]: raises an Exception, raises SystemExit, returns None, returns *)
(* a list of 0, 1 or 2 elements, or returns a value that is not iterable.  *)
(***************************************************************************)
Outcomes == {"raise", "exit", "none", "list0", "list1", "list2", "scalar"}
ListLen(o) == IF o = "list1" THEN 1 ELSE IF o = "list2" THEN 2 ELSE 0
IsList(o) == o \in {"list0", "list1", "list2"}
\* the list the worker returns on item i: its elements are <<i, 1>> .. <<i, len>>
ListOf(i, o) == SetToBag({<<i, j>> : j \in 1..ListLen(o)})

\* what the worker raises and what it returns on item i
RaisedBy(o) == IF o = "raise" THEN "Exception" ELSE IF o = "exit" THEN "BaseException" ELSE "no"
ReturnedBy(i, o) ==
    IF IsList(o) THEN Returns(ListOf(i, o)) ELSE IF o = "scalar" THEN Scalar ELSE NoReturn

InitPool ==
    /\ \E n \in 0..NumItems :
          /\ items = SetToBag({<<i>> : i \in 1..n})
          /\ behav \in [1..n -> Outcomes]
    /\ pending = items
    /\ running = EmptyBag
    /\ started = EmptyBag
    /\ done = EmptyBag
    /\ results = EmptyBag
    /\ maxw \in 1..MaxPoolWorkers
    /\ escaped = FALSE
    /\ argA = None /\ argB = None /\ diffOut = NotRun
    /\ IdlePaths
    /\ IdleWorld

PoolWorkerStart ==
    \E x \in BagToSet(pending) :
        /\ pc = "idle"
        /\ PoolStart(x)
        /\ UNCHANGED <<implVars, cachedict, diffVars, pathVars, behav, worldVars, runVars, histVars>>

PoolWorkerFinish ==
    \E x \in BagToSet(running) :
        /\ pc = "idle"
        /\ Finish(x, RaisedBy(behav[x[1]]), ReturnedBy(x[1], behav[x[1]]))
        /\ UNCHANGED <<implVars, cachedict, diffVars, pathVars, behav, worldVars, runVars, histVars>>

\* for future in cf.as_completed(futures)
PoolCollect ==
    \E f \in BagToSet(done) :
        /\ pc = "idle"
        /\ Collect(f)
        /\ UNCHANGED <<implVars, cachedict, diffVars, pathVars, behav, worldVars, runVars, histVars>>

\* return results, or the exception that ended the loop
PoolReturn ==
    /\ pc = "idle"
    /\ PoolDone
    /\ pc' = IF escaped THEN "aborted" ELSE "returned"
    /\ UNCHANGED <<implVars, cachedict, diffVars, pathVars, poolVars, behav, worldVars, wpc, staged, subcats, files,
                   summary, histVars>>

NextPool == PoolWorkerStart \/ PoolWorkerFinish \/ PoolCollect \/ PoolReturn

PoolSpec == InitPool /\ [][NextPool]_vars

\* what the successful invocations returned, all together
ExpectedAggregate ==
    SetToBag({e \in (DOMAIN behav) \X (1..2) :
                IsList(behav[e[1]]) /\ e[2] <= ListLen(behav[e[1]])})

(* C6 as stated: whatever the worker invocations raise, every one of the M
   items is attempted exactly once, no exception leaves threadpool_execute,
   and the call returns exactly the elements of the results of the
   invocations that succeeded with a result other than None. *)
C6_PoolAggregate ==
    /\ \A x \in BagToSet(started) : CopiesIn(x, started) <= CopiesIn(x, items)
    /\ ~escaped
    /\ pc # "aborted"
    /\ (pc = "returned") => (started = items /\ results = ExpectedAggregate)

(* C6 amended: every one of the M items is attempted exactly once; an
   exception leaves threadpool_execute only when a worker raised one that is
   no Exception (SystemExit, KeyboardInterrupt), and then the call returns
   nothing; when every raising worker raised an Exception the call returns
   exactly the elements of the results of the invocations that succeeded with
   a result other than None, and a failed invocation contributes nothing. *)
C6_PoolAggregateOfExceptions ==
    /\ \A x \in BagToSet(started) : CopiesIn(x, started) <= CopiesIn(x, items)
    /\ (escaped \/ pc = "aborted") => \E i \in DOMAIN behav : behav[i] = "exit"
    /\ (pc \in {"returned", "aborted"}) => started = items
    /\ (pc = "returned") =>
          /\ \A i \in DOMAIN behav : behav[i] # "exit"
          /\ results = ExpectedAggregate

\* a returned call in which one invocation raised and another returned elements
C6_Witness ==
    /\ pc = "returned"
    /\ \E i \in DOMAIN behav : behav[i] = "raise"
    /\ \E i \in DOMAIN behav : behav[i] = "list2"
    /\ BagCardinality(results) >= 2

(* C7: at every moment of a call with max_workers = N, at most N worker
   invocations have started and not yet finished. *)
C7_BoundedParallelism == BagCardinality(running) <= maxw

\* the pool is full while an item still waits for a thread
C7_Witness ==
    /\ BagCardinality(running) = maxw
    /\ pending # EmptyBag
    /\ BagCardinality(items) > maxw

-----------------------------------------------------------------------------
(***************************************************************************)
(* PathSpec: the folder of a course, which is also where its cache record  *)
(* lives, main.py lines 245 and 253-254.  A path is the sequence of its    *)
(* components.                                                             *)
(***************************************************************************)
Years == {"2023", "2024"}
Semesters == {"1", "2"}
SemesterTypes == {"s", "t"}
CourseIDs == {"11504", "11505"}
CourseNames == {"Algebra", "Logica"}

\* a Course: year, semester, semester type, ID and name
CourseObjects ==
    [year : Years, semester : Semesters, semester_type : SemesterTypes,
     ID : CourseIDs, name : CourseNames]

\* the download root given to main()
RootPath == <<"CLIP">>

\* str.upper() on a semester type
Upper(t) == CASE t = "s" -> "S" [] t = "t" -> "T" [] OTHER -> t

\* full_semester = course.semester + course.semester_type.upper()
full_semester(course) == course.semester \o Upper(course.semester_type)

\* path = path / course.year; full_path = path / full_semester / course.name
full_path(path, course) ==
    path \o <<course.year>> \o <<full_semester(course)>> \o <<course.name>>

InitPath ==
    /\ coursePair \in {p \in CourseObjects \X CourseObjects : p[1] # p[2]}
    /\ cachePaths = <<>>
    /\ argA = None /\ argB = None /\ diffOut = NotRun
    /\ IdlePool
    /\ behav = <<>>
    /\ IdleWorld

\* two workers of stage 1 derive the paths they read and stage the cache at
DerivePaths ==
    /\ cachePaths = <<>>
    /\ cachePaths' = <<full_path(RootPath, coursePair[1]), full_path(RootPath, coursePair[2])>>
    /\ UNCHANGED <<implVars, cachedict, diffVars, coursePair, poolVars, behav, worldVars, runVars, histVars>>

NextPath == DerivePaths

PathSpec == InitPath /\ [][NextPath]_vars

(* C17: two distinct courses processed by stage 1 read and stage their cache
   at different paths (path / year / semester+TYPE / name), so that no two
   workers of stage 1 write the same cache record. *)
C17_DistinctCachePaths ==
    (cachePaths # <<>> /\ coursePair[1] # coursePair[2]) =>
        cachePaths[1] # cachePaths[2]

-----------------------------------------------------------------------------
(***************************************************************************)
(* The collaborators, from spec.md.                                        *)
(***************************************************************************)
\* parse_index: the live index of course c, category -> number of documents;
\* a category without documents is no key of it
parse_index(c) ==
    [k \in {k \in Cats : server[c][k] # {}} |-> Cardinality(server[c][k])]

\* parse_cache: the persisted record of course c; empty when there is none
parse_cache(c) == durable[c]

\* count_files_in_subfolders: category -> number of files in its subfolder
count_files_in_subfolders(c) ==
    [k \in {k \in Cats : disk[c][k] # {}} |-> Cardinality(disk[c][k])]

\* stash_cache(index, full_path): index becomes the record of the course for
\* the rest of the run
stash_cache(c, index) ==
    [x \in DOMAIN staged \cup {c} |-> IF x = c THEN index ELSE staged[x]]

\* The two sections of spec.md that describe stash_cache disagree on when the
\* record reaches the disk: "staged-in-memory", "committed to durable storage
\* only at end-of-run" (section 3), or "writes (overwrites) the persisted
\* record", "stage already wrote synchronously" (section 4.2).  The handler is
\* not part of src/; a build has one of the two, stashWritesThrough says which.
\* The durable records once stash_cache has left the records st of the run:
stash_cache_persisted(c, st) ==
    IF stashWritesThrough /\ c \in DOMAIN st
      THEN [durable EXCEPT ![c] = st[c]]
      ELSE durable

\* commit_cache(): every record stashed in the run is on disk when it returns
\* (nothing is left to write when stash_cache wrote through)
commit_cache ==
    [c \in Courses |-> IF c \in DOMAIN staged THEN staged[c] ELSE durable[c]]

\* commit_cache() raises: each record it had to write is written or is not
commit_cache_raises ==
    {[c \in Courses |-> IF c \in W THEN staged[c] ELSE durable[c]] : W \in SUBSET DOMAIN staged}

\* parse_docs and get_file: the files of the category's listing that get_file
\* does not find in the local folder
MissingFiles(c, k) == server[c][k] \ disk[c][k]

(***************************************************************************)
(* search_cats_in_course(path, course), main.py lines 243-293.             *)
(***************************************************************************)
\* a variant that creates the folder and goes on whatever the index holds
NeverSkips(c) == FALSE
\* "if not index": the course has no documents and is skipped (lines 249-250)
SkipsCourse(c) == parse_index(c) = EmptyDict

\* line 260, with the cachedict the worker loaded at line 259
cachediff(c) == dict_compare(Some(parse_index(c)), Some(cachedict[c]))

\* a variant with the arguments of the cross-check exchanged
folderdiffSwapped(c) ==
    dict_compare(Some(count_files_in_subfolders(c)), Some(cachedict[c]))
\* line 278: the cachedict of line 259, not the record stash_cache has left
folderdiff(c) == dict_compare(Some(cachedict[c]), Some(count_files_in_subfolders(c)))

\* a variant that lists every category once a diff is not empty
TasksOfEvery(c, diff) == SetToBag({<<c, k>> : k \in Cats})
\* for category, count in diff.items(): _subcats.append((category, ...))
TasksOf(c, diff) == SetToBag({<<c, k>> : k \in DOMAIN diff.d})

\* a variant without the folder cross-check of lines 277-290
SubcatsServerOnly(c) ==
    IF Falsy(cachediff(c)) THEN EmptyBag ELSE TasksOf(c, cachediff(c))
\* _subcats as returned at line 293
SubcatsOf(c) ==
    (IF Falsy(cachediff(c)) THEN EmptyBag ELSE TasksOf(c, cachediff(c)))
    (+) (IF Falsy(folderdiff(c)) THEN EmptyBag ELSE TasksOf(c, folderdiff(c)))

\* a variant that stashes the diff instead of the whole index
StagedDiffOnly(c) ==
    IF Falsy(cachediff(c)) THEN staged ELSE stash_cache(c, cachediff(c).d)
\* a variant that never stashes
StagedNever(c) == staged
\* the staged records once lines 259-275 have run
StagedAfterDiff(c) ==
    IF Falsy(cachediff(c)) THEN staged ELSE stash_cache(c, parse_index(c))

\* what a call made by a worker does: it returns, raises an Exception, or
\* raises an exception that is no Exception (SystemExit of exit(), ...)
CallOutcomes == {"ok", "Exception", "BaseException"}

NoWorker == [c \in Courses |-> "none"]
NoRecords == [c \in Courses |-> EmptyDict]

\* the stage-1 worker of course c ends on an exception raised by a call
CatsRaise(c, kind) ==
    /\ Finish(<<c>>, kind, NoReturn)
    /\ wpc' = [wpc EXCEPT ![c] = "none"]
    /\ anyFail' = TRUE
    /\ fatal' = (fatal \/ kind = "BaseException")
    /\ UNCHANGED returned

\* the stage-1 worker of course c returns value
CatsReturn(c, value) ==
    /\ Finish(<<c>>, "no", value)
    /\ wpc' = [wpc EXCEPT ![c] = "none"]
    /\ returned' = returned \cup {c}
    /\ UNCHANGED <<anyFail, fatal>>

\* the stage-1 worker of course c goes on to its next call
CatsGoOn(c, next) ==
    /\ wpc' = [wpc EXCEPT ![c] = next]
    /\ UNCHANGED <<poolVars, anyFail, fatal, returned>>

\* The server and the disk do not change while a run is in stage 1, so the
\* index a worker holds is that of the current state; the record of the course
\* on disk may change (stash_cache), so the worker's cachedict is kept.

\* lines 245-250: index = parse_index(...); an empty index ends the worker
CatsParseIndex ==
    \E c \in Courses, out \in CallOutcomes :
        /\ pc = "stage1"
        /\ wpc[c] = "parse_index"
        /\ IF out # "ok" THEN CatsRaise(c, out)
           ELSE IF SkipsCourse(c) THEN CatsReturn(c, NoReturn)
           ELSE CatsGoOn(c, "mkdir")
        /\ UNCHANGED <<implVars, cachedict, diffVars, pathVars, behav, worldVars, pc, staged, subcats, files, summary,
                       dlOk, dlFail, startDurable, startDisk, mainRaised, prevOk, prevFailed,
                       lastEnd>>

\* lines 253-256: full_path.mkdir(parents=True, exist_ok=True)
CatsMkdir ==
    \E c \in Courses, out \in CallOutcomes :
        /\ pc = "stage1"
        /\ wpc[c] = "mkdir"
        /\ IF out # "ok"
             THEN CatsRaise(c, out) /\ UNCHANGED folders
             ELSE CatsGoOn(c, "parse_cache") /\ folders' = folders \cup {c}
        /\ UNCHANGED <<implVars, cachedict, diffVars, pathVars, behav, server, disk, durable, pc, staged, subcats,
                       files, summary, dlOk, dlFail, startDurable, startDisk, mainRaised, prevOk,
                       prevFailed, lastEnd>>

\* line 259: cachedict = parse_cache(full_path, index, course.name)
CatsParseCache ==
    \E c \in Courses, out \in CallOutcomes :
        /\ pc = "stage1"
        /\ wpc[c] = "parse_cache"
        /\ IF out # "ok"
             THEN CatsRaise(c, out) /\ UNCHANGED cachedict
             ELSE CatsGoOn(c, "stash_cache")
                  /\ cachedict' = [cachedict EXCEPT ![c] = parse_cache(c)]
        /\ UNCHANGED <<implVars, diffVars, pathVars, behav, worldVars, pc, staged, subcats, files,
                       summary, dlOk, dlFail, startDurable, startDisk, mainRaised, prevOk,
                       prevFailed, lastEnd>>

\* lines 260-275: dict_compare, stash_cache when the diff is not empty; a call
\* that raises here raises before the record is stashed (one that raises
\* after it leaves what CatsCrossCheck leaves when it raises)
CatsStash ==
    \E c \in Courses, out \in CallOutcomes :
        /\ pc = "stage1"
        /\ wpc[c] = "stash_cache"
        /\ IF out # "ok"
             THEN CatsRaise(c, out) /\ UNCHANGED <<staged, durable>>
             ELSE /\ CatsGoOn(c, "count_files")
                  /\ staged' = StagedAfterDiff(c)
                  /\ durable' = stash_cache_persisted(c, staged')
        /\ UNCHANGED <<implVars, cachedict, diffVars, pathVars, behav, server, disk, folders, pc,
                       subcats, files, summary, dlOk, dlFail, startDurable, startDisk,
                       mainRaised, prevOk, prevFailed, lastEnd>>

\* lines 277-293: count_files_in_subfolders, dict_compare, return _subcats
CatsCrossCheck ==
    \E c \in Courses, out \in CallOutcomes :
        /\ pc = "stage1"
        /\ wpc[c] = "count_files"
        /\ IF out # "ok" THEN CatsRaise(c, out)
           ELSE CatsReturn(c, Returns(SubcatsOf(c)))
        /\ UNCHANGED <<implVars, cachedict, diffVars, pathVars, behav, worldVars, pc, staged, subcats, files, summary,
                       dlOk, dlFail, startDurable, startDisk, mainRaised, prevOk, prevFailed,
                       lastEnd>>

(***************************************************************************)
(* search_files_in_category(category, catID, course, full_path), main.py   *)
(* lines 295-322: an Exception is caught inside and None is returned; any  *)
(* other exception leaves the worker.                                      *)
(***************************************************************************)
SearchFiles ==
    \E t \in BagToSet(running), out \in CallOutcomes :
        /\ pc = "stage2"
        /\ Finish(t, IF out = "BaseException" THEN out ELSE "no",
                  IF out = "ok"
                    THEN Returns(SetToBag({<<t[1], t[2], f>> : f \in MissingFiles(t[1], t[2])}))
                    ELSE NoReturn)
        /\ anyFail' = (anyFail \/ out # "ok")
        /\ fatal' = (fatal \/ out = "BaseException")
        /\ UNCHANGED <<implVars, cachedict, diffVars, pathVars, behav, worldVars, runVars,
                       dlOk, dlFail, startDurable, startDisk, returned, mainRaised, prevOk,
                       prevFailed, lastEnd>>

(***************************************************************************)
(* download_file(descriptor): the file is written, or the call raises and  *)
(* nothing is written.                                                     *)
(***************************************************************************)
DownloadFile ==
    \E d \in BagToSet(running), out \in CallOutcomes :
        /\ pc = "stage3"
        /\ Finish(d, IF out = "ok" THEN "no" ELSE out, NoReturn)
        /\ IF out = "ok"
             THEN /\ disk' = [disk EXCEPT ![d[1]][d[2]] = @ \cup {d[3]}]
                  /\ dlOk' = dlOk (+) SetToBag({d})
                  /\ UNCHANGED dlFail
             ELSE /\ dlFail' = dlFail (+) SetToBag({d})
                  /\ UNCHANGED <<disk, dlOk>>
        /\ anyFail' = (anyFail \/ out # "ok")
        /\ fatal' = (fatal \/ out = "BaseException")
        /\ UNCHANGED <<implVars, cachedict, diffVars, pathVars, behav, server, folders, durable, runVars,
                       startDurable, startDisk, returned, mainRaised, prevOk, prevFailed,
                       lastEnd>>

\* a thread of the stage's pool takes a submitted invocation
WorkerStart ==
    \E x \in BagToSet(pending) :
        /\ pc \in {"stage1", "stage2", "stage3"}
        /\ PoolStart(x)
        /\ wpc' = IF pc = "stage1" THEN [wpc EXCEPT ![x[1]] = "parse_index"] ELSE wpc
        /\ UNCHANGED <<implVars, cachedict, diffVars, pathVars, behav, worldVars, pc, staged, subcats, files, summary,
                       histVars>>

\* the main thread, in the as_completed loop of the stage, takes a future
AsCompleted ==
    \E f \in BagToSet(done) :
        /\ pc \in {"stage1", "stage2", "stage3"}
        /\ Collect(f)
        /\ UNCHANGED <<implVars, cachedict, diffVars, pathVars, behav, worldVars, runVars, histVars>>

(***************************************************************************)
(* main(), lines 147-187, after login and the choice of the year.          *)
(***************************************************************************)
\* the documents of course c in catalog s
DocsOf(s, c) == {d \in Cats \X Files : d[2] \in s[c][d[1]]}
Catalogs ==
    {s \in [Courses -> [Cats -> SUBSET Files]] :
        \A c \in Courses : Cardinality(DocsOf(s, c)) <= MaxDocs}

Init ==
    /\ argA = None /\ argB = None /\ diffOut = NotRun
    /\ IdlePaths
    /\ IdlePool
    /\ behav = <<>>
    /\ server \in Catalogs
    /\ disk = [c \in Courses |-> [k \in Cats |-> {}]]
    /\ folders = {}
    /\ durable = [c \in Courses |-> EmptyDict]
    /\ stashWritesThrough \in BOOLEAN
    /\ pc = "idle"
    /\ wpc = NoWorker
    /\ cachedict = NoRecords
    /\ staged = [c \in {} |-> EmptyDict]
    /\ subcats = EmptyBag
    /\ files = EmptyBag
    /\ summary = 0
    /\ dlOk = EmptyBag
    /\ dlFail = EmptyBag
    /\ anyFail = FALSE
    /\ startDurable = durable
    /\ startDisk = disk
    /\ returned = {}
    /\ fatal = FALSE
    /\ mainRaised = "no"
    /\ prevOk = FALSE
    /\ prevFailed = {}
    /\ lastEnd = "none"

\* a new process: courses = parse_courses(year, user), then line 154
StartRun ==
    /\ pc = "idle"
    /\ pc' = "stage1"
    /\ Submit(SetToBag({<<c>> : c \in Courses}), MAX_THREADS)
    /\ wpc' = NoWorker
    /\ cachedict' = NoRecords
    /\ staged' = [c \in {} |-> EmptyDict]
    /\ subcats' = EmptyBag
    /\ files' = EmptyBag
    /\ summary' = 0
    /\ dlOk' = EmptyBag
    /\ dlFail' = EmptyBag
    /\ anyFail' = FALSE
    /\ startDurable' = durable
    /\ startDisk' = disk
    /\ returned' = {}
    /\ fatal' = FALSE
    /\ mainRaised' = "no"
    /\ UNCHANGED <<implVars, diffVars, pathVars, behav, worldVars, prevOk, prevFailed, lastEnd>>

\* the pool of a process that has ended
ResetPool ==
    /\ items' = EmptyBag
    /\ pending' = EmptyBag
    /\ running' = EmptyBag
    /\ started' = EmptyBag
    /\ done' = EmptyBag
    /\ results' = EmptyBag
    /\ maxw' = MAX_THREADS
    /\ escaped' = FALSE

\* the variables of a process that has ended
ResetRun ==
    /\ ResetPool
    /\ wpc' = NoWorker
    /\ cachedict' = NoRecords
    /\ staged' = [c \in {} |-> EmptyDict]
    /\ subcats' = EmptyBag
    /\ files' = EmptyBag
    /\ summary' = 0
    /\ dlOk' = EmptyBag
    /\ dlFail' = EmptyBag
    /\ anyFail' = FALSE
    /\ returned' = {}
    /\ fatal' = FALSE
    /\ mainRaised' = "no"

\* line 154 returns: subcats; line 159 submits them
Stage1Done ==
    /\ pc = "stage1"
    /\ PoolDone
    /\ ~escaped
    /\ subcats' = results
    /\ pc' = "stage2"
    /\ Submit(results, MAX_THREADS)
    /\ UNCHANGED <<implVars, cachedict, diffVars, pathVars, behav, worldVars, wpc, staged, files,
                   summary, histVars>>

\* the directory scan of lines 165 and 180, in the main thread:
\* sum(f.stat().st_size for f in path.glob('**/*') if f.is_file()); it
\* returns or raises, and main() has no handler
ScanOutcomes == {"ok", "raises"}
\* commit_cache() at line 174, in the main thread, outside any try block
CommitOutcomes == {"ok", "raises"}

\* main() ends on an exception raised by one of its own calls
MainRaises(where) ==
    /\ pc' = "aborted"
    /\ mainRaised' = where
    /\ anyFail' = TRUE
    /\ UNCHANGED <<dlOk, dlFail, startDurable, startDisk, returned, fatal, prevOk, prevFailed,
                   lastEnd>>

\* line 159 returns: files; lines 163-170
Stage2Done ==
    \E scan \in ScanOutcomes :
        /\ pc = "stage2"
        /\ PoolDone
        /\ ~escaped
        /\ files' = results
        /\ IF BagCardinality(results) # 0
             THEN IF scan = "ok"
                    THEN /\ pc' = "stage3"
                         /\ Submit(results, DOWNLOAD_WORKERS)
                         /\ UNCHANGED histVars
                    ELSE /\ MainRaises("line 165")
                         /\ UNCHANGED poolVars
             ELSE /\ scan = "ok"
                  /\ pc' = "commit"
                  /\ UNCHANGED <<poolVars, histVars>>
        /\ UNCHANGED <<implVars, cachedict, diffVars, pathVars, behav, worldVars, wpc, staged, subcats, summary>>

\* line 167 returns
Stage3Done ==
    /\ pc = "stage3"
    /\ PoolDone
    /\ ~escaped
    /\ pc' = "commit"
    /\ UNCHANGED <<implVars, cachedict, diffVars, pathVars, poolVars, behav, worldVars, wpc, staged, subcats, files,
                   summary, histVars>>

\* threadpool_execute raises at line 154, 159 or 167: main() has no handler
StageRaises ==
    /\ pc \in {"stage1", "stage2", "stage3"}
    /\ PoolDone
    /\ escaped
    /\ pc' = "aborted"
    /\ UNCHANGED <<implVars, cachedict, diffVars, pathVars, poolVars, behav, worldVars, wpc, staged, subcats, files,
                   summary, histVars>>

\* line 174: commit_cache() returns, or raises and main() has no handler
CommitCache ==
    \E out \in CommitOutcomes :
        /\ pc = "commit"
        /\ IF out = "ok"
             THEN /\ durable' = commit_cache
                  /\ pc' = "report"
                  /\ UNCHANGED histVars
             ELSE /\ durable' \in commit_cache_raises
                  /\ MainRaises("line 174")
        /\ UNCHANGED <<implVars, cachedict, diffVars, pathVars, poolVars, behav, server, disk,
                       folders, wpc, staged, subcats, files, summary>>

\* lines 177-185: "Transferidos {len(files)} ficheiros"
SuccessCount == BagCardinality(dlOk)
ReportedCount == BagCardinality(files)

Report ==
    \E scan \in ScanOutcomes :
        /\ pc = "report"
        /\ IF BagCardinality(files) # 0 /\ scan = "raises"
             THEN /\ MainRaises("line 180")
                  /\ UNCHANGED summary
             ELSE /\ scan = "ok"
                  /\ summary' = ReportedCount
                  /\ pc' = "done"
                  /\ UNCHANGED histVars
        /\ UNCHANGED <<implVars, cachedict, diffVars, pathVars, poolVars, behav, worldVars, wpc, staged, subcats, files>>

\* the download failures of this run in courses whose cache was stashed in it
FailedAfterStash == {<<d[1], d[2]>> : d \in {x \in BagToSet(dlFail) : x[1] \in DOMAIN staged}}

\* the process exits
Exit ==
    /\ pc = "done"
    /\ pc' = "idle"
    /\ prevOk' = ~anyFail
    /\ prevFailed' = FailedAfterStash
    /\ lastEnd' = "completed"
    /\ ResetRun
    /\ UNCHANGED <<implVars, diffVars, pathVars, behav, worldVars, startDurable, startDisk>>

\* the process ends on the exception that left main(): cfg.save_config() is
\* not reached, nor is commit_cache unless the exception is that of line 174
\* or 180; what was kept in memory and not written is gone
Traceback ==
    /\ pc = "aborted"
    /\ pc' = "idle"
    /\ prevOk' = FALSE
    /\ prevFailed' = {}
    /\ lastEnd' = CASE mainRaised = "line 174" -> "aborted in commit_cache"
                     [] mainRaised = "line 180" -> "aborted after commit_cache"
                     [] OTHER -> "aborted"
    /\ ResetRun
    /\ UNCHANGED <<implVars, diffVars, pathVars, behav, worldVars, startDurable, startDisk>>

\* the process is killed before commit_cache is reached: what was kept in
\* memory is gone, what stash_cache wrote to disk stays
Interrupt ==
    /\ pc \in {"stage1", "stage2", "stage3", "commit"}
    /\ pc' = "idle"
    /\ prevOk' = FALSE
    /\ prevFailed' = {}
    /\ lastEnd' = IF \E c \in DOMAIN staged : staged[c] # durable[c]
                    THEN "interrupted, staged records lost" ELSE "interrupted"
    /\ ResetRun
    /\ UNCHANGED <<implVars, diffVars, pathVars, behav, worldVars, startDurable, startDisk>>

\* between two runs the catalog on the server changes
ServerChange ==
    /\ pc = "idle"
    /\ server' \in Catalogs \ {server}
    /\ prevOk' = FALSE
    /\ prevFailed' = {}
    /\ UNCHANGED <<implVars, cachedict, diffVars, pathVars, poolVars, behav, disk, folders, durable, runVars,
                   dlOk, dlFail, anyFail, startDurable, startDisk, returned, fatal,
                   mainRaised, lastEnd>>

\* between two runs the user deletes a local file
DeleteLocalFile ==
    \E c \in Courses, k \in Cats :
      \E f \in disk[c][k] :
        /\ pc = "idle"
        /\ disk' = [disk EXCEPT ![c][k] = @ \ {f}]
        /\ prevOk' = FALSE
        /\ UNCHANGED <<implVars, cachedict, diffVars, pathVars, poolVars, behav, server, folders, durable, runVars,
                       dlOk, dlFail, anyFail, startDurable, startDisk, returned, fatal,
                       mainRaised, prevFailed, lastEnd>>

RunStep ==
    \/ WorkerStart
    \/ CatsParseIndex
    \/ CatsMkdir
    \/ CatsParseCache
    \/ CatsStash
    \/ CatsCrossCheck
    \/ SearchFiles
    \/ DownloadFile
    \/ AsCompleted
    \/ Stage1Done
    \/ Stage2Done
    \/ Stage3Done
    \/ StageRaises
    \/ CommitCache
    \/ Report
    \/ Exit
    \/ Traceback

Next ==
    \/ StartRun
    \/ RunStep
    \/ Interrupt
    \/ ServerChange
    \/ DeleteLocalFile

Spec == Init /\ [][Next]_vars

-----------------------------------------------------------------------------
(* C1: a run that follows a completed run, with no server-side change and no
   local deletion in between, emits zero SyncTasks and downloads nothing.
   Stated here for the case most favourable to the claim: no call of the
   first run failed. *)
C1_SecondRunIdle ==
    (pc = "done" /\ prevOk) =>
        (subcats = EmptyBag /\ files = EmptyBag /\ dlOk = EmptyBag)

(* C2: with the server unchanged and every call succeeding, the runs reach
   one that emits zero SyncTasks.  A run is a function of the durable cache,
   the disk and the server when no call fails, so a run without failure that
   leaves the cache and the disk as it found them is repeated by every later
   run: convergence requires that such a run emitted zero SyncTasks. *)
C2_FixedPointIsQuiet ==
    (pc = "done" /\ ~anyFail /\ durable = startDurable /\ disk = startDisk) =>
        subcats = EmptyBag

(* C3: a category with a download that failed in the previous run, after the
   course's cache was stashed in that run, is emitted as a SyncTask by the
   next run when the server has not changed (and stage 1 of that run did not
   fail). *)
C3_FailedDownloadRetried ==
    (pc = "stage2" /\ ~anyFail) =>
        \A t \in prevFailed : BagIn(t, subcats)

(* C8: while a run has not reached commit_cache, and after a run was
   interrupted or ended on an exception before it, the durable cache record
   of every course is the one the run found at its start (the one the
   previous run committed).  Whether this holds is decided by stash_cache
   alone, which src/ does not contain and spec.md describes in two ways. *)
C8_NoPartialCommit ==
    (pc \in {"stage1", "stage2", "stage3", "commit"}
       \/ (pc = "aborted" /\ mainRaised \notin {"line 174", "line 180"})
       \/ (pc = "idle" /\ lastEnd \in {"interrupted", "interrupted, staged records lost",
                                       "aborted"})) =>
        durable = startDurable

(* C8 in a build whose stash_cache keeps the record in memory (spec.md,
   section 3): the statement above holds, and what the run stashed is lost. *)
C8_NoPartialCommitWhenBuffered ==
    ~stashWritesThrough => C8_NoPartialCommit

(* C8 in a build whose stash_cache writes the record through (spec.md,
   section 4.2): before commit_cache the record on disk of a course is the
   one the run found or the live index the run has stashed for it. *)
C8_StashedOrPreviousWhenWrittenThrough ==
    (stashWritesThrough /\ pc \in {"stage1", "stage2", "stage3", "commit"}) =>
        \A c \in Courses :
            \/ durable[c] = startDurable[c]
            \/ c \in DOMAIN staged /\ durable[c] = staged[c] /\ staged[c] = parse_index(c)

\* a run was interrupted after stash_cache had kept in memory a record that
\* differs from the one on disk
C8_BufferedWitness ==
    /\ pc = "idle"
    /\ ~stashWritesThrough
    /\ lastEnd = "interrupted, staged records lost"
    /\ \E c \in Courses : durable[c] # parse_index(c)

\* a run was interrupted after stash_cache had written a record that differs
\* from the one the run found
C8_WrittenThroughWitness ==
    /\ pc = "idle"
    /\ stashWritesThrough
    /\ lastEnd = "interrupted"
    /\ durable # startDurable

(* C9: whatever a per-course, per-category or per-file call raises, the
   failure does not leave the stage in which it occurred: threadpool_execute
   raises in no stage, and main() does not end on an exception unless one of
   its own calls raised (the scans of lines 165 and 180, commit_cache). *)
C9_EveryFailureContained ==
    /\ ~escaped
    /\ (pc = "aborted") => mainRaised # "no"

(* C10: the number of transferred files the summary reports is the number of
   files whose download succeeded. *)
C10_SummaryCountsSuccesses ==
    (pc = "done") => summary = SuccessCount

-----------------------------------------------------------------------------
(***************************************************************************)
(* What stage 1 of the current run found: the server, the durable cache    *)
(* and the disk do not change between the start of a run and its downloads.*)
(***************************************************************************)
AfterStage1 == pc \in {"stage2", "stage3", "commit", "report", "done"}

\* category k of course c is in Diff(liveIndex, cache)
InServerDiff(c, k) ==
    /\ server[c][k] # {}
    /\ (k \notin DOMAIN startDurable[c] \/ Cardinality(server[c][k]) > startDurable[c][k])

\* category k of course c is in Diff(cache, localInventory)
InFolderDiff(c, k) ==
    /\ k \in DOMAIN startDurable[c]
    /\ (startDisk[c][k] = {} \/ startDurable[c][k] > Cardinality(startDisk[c][k]))

Flagged(c, k) == InServerDiff(c, k) \/ InFolderDiff(c, k)

\* the cache record of course c as the run holds it
CacheRecord(c) == IF c \in DOMAIN staged THEN staged[c] ELSE durable[c]

(* C11: within a run, every SyncTask, every listing and get_file invocation,
   every file descriptor and every download is of a (course, category) pair
   that is in the server-vs-cache diff or in the cache-vs-folder diff of that
   course; the subfolder of a category in neither diff is left as it was. *)
C11_ScheduledOnlyIfFlagged ==
    AfterStage1 =>
        /\ \A t \in BagToSet(subcats) : Flagged(t[1], t[2])
        /\ \A x \in BagToSet(started) : Flagged(x[1], x[2])
        /\ \A d \in BagToSet(files) \cup BagToSet(dlOk) \cup BagToSet(dlFail) :
              Flagged(d[1], d[2])
        /\ \A c \in Courses, k \in Cats :
              ~Flagged(c, k) => disk[c][k] = startDisk[c][k]

\* a run has downloaded a file of a flagged category and left alone a
\* category of the same course that is complete on disk
C11_Witness ==
    /\ pc = "done"
    /\ \E c \in Courses, k1 \in Cats, k2 \in Cats :
          /\ Flagged(c, k1)
          /\ \E d \in BagToSet(dlOk) : d[1] = c /\ d[2] = k1
          /\ ~Flagged(c, k2)
          /\ server[c][k2] # {}
          /\ disk[c][k2] = server[c][k2]

(* C12: the SyncTasks search_cats_in_course returns for one course hold at
   most one task per category name, also when the category is in both
   diffs. *)
C12_OneTaskPerCategory ==
    AfterStage1 => \A t \in BagToSet(subcats) : CopiesIn(t, subcats) <= 1

(* C13: for every course with a non-empty live index whose stage-1 invocation
   returned, every category of the loaded cache record that has no local
   subfolder count or more cached documents than files on disk is emitted as
   a SyncTask of that run, also when the server-vs-cache diff is empty. *)
C13_FolderCrossCheck ==
    AfterStage1 =>
        \A c \in returned, k \in Cats :
            (parse_index(c) # EmptyDict /\ InFolderDiff(c, k)) => BagIn(<<c, k>>, subcats)

\* the server-vs-cache diff of the course is empty and the cross-check alone
\* has emitted a task
C13_Witness ==
    /\ AfterStage1
    /\ \E c \in returned :
          /\ parse_index(c) # EmptyDict
          /\ \A k \in Cats : ~InServerDiff(c, k)
          /\ \E k \in Cats : InFolderDiff(c, k) /\ BagIn(<<c, k>>, subcats)

(* C14: for a course whose stage-1 invocation returned: if the server-vs-cache
   diff is non-empty, the record staged for the course equals the live index
   (all its categories) from the end of stage 1, hence before any download
   starts, and is the durable record once the run has committed; if the diff
   is empty nothing is staged for the course and its durable record stays the
   one the run found. *)
C14_StagingConditionalTotal ==
    \A c \in Courses :
        (AfterStage1 /\ c \in returned /\ parse_index(c) # EmptyDict) =>
            IF \E k \in Cats : InServerDiff(c, k)
              THEN /\ c \in DOMAIN staged
                   /\ staged[c] = parse_index(c)
                   /\ (pc \in {"report", "done"}) => durable[c] = parse_index(c)
              ELSE /\ c \notin DOMAIN staged
                   /\ durable[c] = startDurable[c]

\* downloads are running; the staged record holds the whole index, of which
\* one category is in the diff and another is not
C14_Witness ==
    /\ pc = "stage3"
    /\ running # EmptyBag
    /\ \E c \in returned :
          /\ c \in DOMAIN staged
          /\ staged[c] = parse_index(c)
          /\ \E k \in DOMAIN parse_index(c) : InServerDiff(c, k)
          /\ \E k \in DOMAIN parse_index(c) : ~InServerDiff(c, k)

(* C15: when the live index of a course is empty, its stage-1 invocation
   creates no folder, stages no cache record, emits no SyncTask and leaves
   the local tree and every cache record as they were. *)
C15_EmptyIndexSkip ==
    [][\A c \in Courses :
          (pc = "stage1" /\ pc' = "stage1" /\ parse_index(c) = EmptyDict)
          => (/\ c \in folders' => c \in folders
              /\ c \notin DOMAIN staged'
              /\ disk'[c] = disk[c]
              /\ durable'[c] = durable[c]
              /\ \A f \in BagToSet(done') : f.args = <<c>> => f.value.list = EmptyBag
              /\ \A t \in BagToSet(results') : t[1] # c)]_vars

\* a course with a cache record and a file missing on disk, for which the
\* cross-check would emit a task, has been skipped for its empty index
C15_Witness ==
    /\ pc = "stage1"
    /\ pending = EmptyBag /\ running = EmptyBag /\ done = EmptyBag
    /\ results = EmptyBag
    /\ \E c \in returned :
          /\ parse_index(c) = EmptyDict
          /\ \E k \in DOMAIN durable[c] : disk[c][k] = {}

(* C16: every SyncTask emitted is of a category that is a key of the live
   index of its course, also when the category enters through the
   folder-vs-cache diff. *)
C16_EmittedCategoryInLiveIndex ==
    AfterStage1 => \A t \in BagToSet(subcats) : t[2] \in DOMAIN parse_index(t[1])

(* C18: while stage 1 runs only search_cats_in_course invocations are in
   flight or waiting to be collected, while stage 2 runs only
   search_files_in_category invocations, while stage 3 runs only
   download_file invocations, and none afterwards; main() leaves a stage
   only when every invocation of it has started and finished; commit_cache
   runs only when every descriptor's download has succeeded or failed. *)
C18_StageBarriers ==
    /\ [](\A x \in BagToSet(pending) \cup BagToSet(running) \cup {f.args : f \in BagToSet(done)} :
            /\ pc = "stage1" => Len(x) = 1
            /\ pc = "stage2" => Len(x) = 2
            /\ pc = "stage3" => Len(x) = 3
            /\ pc \in {"commit", "report", "done"} => FALSE)
    /\ [][(pc \in {"stage1", "stage2", "stage3"} /\ pc' \notin {pc, "idle"})
            => (pending = EmptyBag /\ running = EmptyBag /\ started = items)]_vars
    /\ [][(pc \in {"stage1", "stage2", "stage3"} /\ pc' \notin {pc, "idle", "aborted"})
            => done = EmptyBag]_vars
    /\ [][(pc = "commit" /\ pc' = "report")
            => BagCardinality(dlOk) + BagCardinality(dlFail) = BagCardinality(files)]_vars

\* the cache has been committed after two categories were listed and, of
\* the downloads, one succeeded and one failed
C18_Witness ==
    /\ pc = "report"
    /\ BagCardinality(subcats) >= 2
    /\ dlOk # EmptyBag
    /\ dlFail # EmptyBag

(* C19: for a course whose stage-1 invocation returned, every category of
   the live index with fewer files on disk than the live index counts (or
   with no local subfolder) is emitted as a SyncTask. *)
C19_SchedulingComplete ==
    AfterStage1 =>
        \A c \in returned :
            \A k \in DOMAIN parse_index(c) :
                Cardinality(startDisk[c][k]) < parse_index(c)[k] => BagIn(<<c, k>>, subcats)

\* a category short of files on disk that the server-vs-cache diff does not
\* report has been emitted
C19_Witness ==
    /\ AfterStage1
    /\ \E c \in returned :
          \E k \in DOMAIN parse_index(c) :
              /\ Cardinality(startDisk[c][k]) < parse_index(c)[k]
              /\ ~InServerDiff(c, k)
              /\ BagIn(<<c, k>>, subcats)

(* C20: once the stage-1 invocation of a course with a non-empty live index
   has returned, every category of the live index is a key of the course's
   cache record with a cached count not lower than the live count, and the
   record equals the live index when the server-vs-cache diff was not
   empty. *)
C20_CacheDominatesIndex ==
    AfterStage1 =>
        \A c \in returned :
            (parse_index(c) # EmptyDict) =>
                /\ \A k \in DOMAIN parse_index(c) :
                      /\ k \in DOMAIN CacheRecord(c)
                      /\ CacheRecord(c)[k] >= parse_index(c)[k]
                /\ (\E k \in Cats : InServerDiff(c, k)) => CacheRecord(c) = parse_index(c)

\* the diff was empty and the record counts more documents of a category than
\* the live index
C20_Witness ==
    /\ AfterStage1
    /\ \E c \in returned :
          /\ parse_index(c) # EmptyDict
          /\ \A k \in Cats : ~InServerDiff(c, k)
          /\ \E k \in DOMAIN parse_index(c) : CacheRecord(c)[k] > parse_index(c)[k]

=============================================================================
